---- MODULE Spec2Model ----
(***************************************************************************)
(* pixel-cascade: an S3 write notification is published to an SNS topic    *)
(* (upload notifier) and fanned out to three SQS-fed Lambda handlers: the  *)
(* metadata extractor, the JPEG converter and the resizer.                   *)
(*                                                                         *)
(* Strings that the code takes apart (object keys, derived names, artifact *)
(* paths) are sequences of one-character strings.                          *)
(***************************************************************************)
EXTENDS Integers, Sequences, FiniteSets, TLC

(***************************************************************************)
(* Bounds of the model.                                                    *)
(***************************************************************************)
MaxLen == 4          \* longest generated key in SpecName
MaxBatch == 2        \* records per invocation
MaxDeliveries == 2   \* deliveries of the same batch
MaxFaults == 1       \* failing storage / publish calls per behaviour
MaxTime == 3         \* clock ticks per behaviour
MaxHops == 6         \* invocations along one run of the pipeline

(***************************************************************************)
(* String helpers.                                                         *)
(***************************************************************************)
Sep == "/"
Dot == "."

Drop(s, n) == SubSeq(s, n + 1, Len(s))
Take(s, n) == SubSeq(s, 1, n)

HasSuffix(s, suffix) ==
    /\ Len(s) >= Len(suffix)
    /\ Drop(s, Len(s) - Len(suffix)) = suffix

\* strings.TrimSuffix
TrimSuffix(s, suffix) ==
    IF HasSuffix(s, suffix) THEN Take(s, Len(s) - Len(suffix)) ELSE s

RECURSIVE StripTrailingSlashes(_)
StripTrailingSlashes(path) ==
    IF Len(path) > 0 /\ path[Len(path)] = Sep
    THEN StripTrailingSlashes(Take(path, Len(path) - 1))
    ELSE path

\* index of the last separator of path, 0 when there is none
LastSepIndex(path) ==
    LET idx == {j \in 1..Len(path) : path[j] = Sep}
    IN IF idx = {} THEN 0 ELSE CHOOSE j \in idx : \A k \in idx : k <= j

\* filepath.Base
Base(path) ==
    IF path = <<>> THEN <<Dot>>
    ELSE LET p == StripTrailingSlashes(path)
             q == Drop(p, LastSepIndex(p))
         IN IF q = <<>> THEN <<Sep>> ELSE q

\* filepath.Ext: the suffix beginning at the final dot of the final element
Ext(path) ==
    LET dots == {j \in 1..Len(path) :
                    /\ path[j] = Dot
                    /\ \A k \in j..Len(path) : path[k] # Sep}
    IN IF dots = {} THEN <<>>
       ELSE Drop(path, (CHOOSE j \in dots : \A k \in dots : k <= j) - 1)

\* Ext taking the suffix from the first dot of the final element
ExtFirstDot(path) ==
    LET dots == {j \in 1..Len(path) :
                    /\ path[j] = Dot
                    /\ \A k \in j..Len(path) : path[k] # Sep}
    IN IF dots = {} THEN <<>>
       ELSE Drop(path, (CHOOSE j \in dots : \A k \in dots : j <= k) - 1)

\* extractFilename of the metadata extractor
extractFilenameMetadata(input) ==
    LET base == Base(input)
        name == TrimSuffix(base, Ext(base))
    IN name

\* extractFilename of the converter (and a copy that strips from the first dot)
ExtractFilenameFirstDot(input) == TrimSuffix(Base(input), ExtFirstDot(Base(input)))
extractFilenameConverter(input) ==
    LET base == Base(input)
        name == TrimSuffix(base, Ext(base))
    IN name

\* extractFilename of the resizer
extractFilenameResizer(input) ==
    LET base == Base(input)
        name == TrimSuffix(base, Ext(base))
    IN name


(***************************************************************************)
(* Program constants.                                                      *)
(***************************************************************************)
ConvertedFolder == <<"c","o","n","v","e","r","t","e","d","/">>
ResizedFolder == <<"r","e","s","i","z","e","d","/">>
JpgSuffix == <<".","j","p","g">>
tableName == "pixel-metadata"
newImageUploadedTopicArn == "arn:aws:sns:us-east-1:116981782358:new-image-uploaded"
JpegMaxDim == 65536   \* image/jpeg refuses images with a side of 1<<16 or more

\* resizeTasks of the resizer, in slice order (and a slice with a fourth size)
resizeTasksFour ==
    << [SizeName |-> <<"t","h","u","m","b","n","a","i","l">>, Width |-> 100],
       [SizeName |-> <<"m","e","d","i","u","m">>, Width |-> 500],
       [SizeName |-> <<"l","a","r","g","e">>, Width |-> 1000],
       [SizeName |-> <<"x","l">>, Width |-> 2000] >>
resizeTasks ==
    << [SizeName |-> <<"t","h","u","m","b","n","a","i","l">>, Width |-> 100],
       [SizeName |-> <<"m","e","d","i","u","m">>, Width |-> 500],
       [SizeName |-> <<"l","a","r","g","e">>, Width |-> 1000] >>

TaskIds == 1..Len(resizeTasks)

Workers == {"notifier", "metadata", "converter", "resizer"}

(***************************************************************************)
(* Source objects.  An object's bytes are described by what the decoders   *)
(* see in them: the format and dimensions of the header, whether the       *)
(* header and the pixel data are readable, the byte length, and gen, the   *)
(* number of JPEG encodings the pixels went through.                       *)
(*   intact = "ok"     header and pixel data decode                        *)
(*   intact = "header" the header decodes, the pixel data does not         *)
(*   intact = "no"     not an image of a registered format                 *)
(***************************************************************************)
Bucket == "images"

KeyXPng == <<"a","/","x",".","p","n","g">>
KeyXJpg == <<"b","/","x",".","j","p","g">>
KeyTall == <<"t">>
KeyWide == <<"w",".","v","1",".","p","n","g">>
KeyText == <<"n",".","t","x","t">>

Keys == {KeyXPng, KeyXJpg, KeyTall, KeyWide, KeyText}

SourceObjects ==
    (<<Bucket, KeyXPng>> :> [format |-> "png", width |-> 2000, height |-> 1000,
                             intact |-> "ok", size |-> 9000, gen |-> 0]) @@
    (<<Bucket, KeyXJpg>> :> [format |-> "jpeg", width |-> 800, height |-> 600,
                             intact |-> "header", size |-> 300, gen |-> 0]) @@
    (<<Bucket, KeyTall>> :> [format |-> "gif", width |-> 10, height |-> 700,
                             intact |-> "ok", size |-> 800, gen |-> 0]) @@
    (<<Bucket, KeyWide>> :> [format |-> "png", width |-> 70000, height |-> 700,
                             intact |-> "ok", size |-> 9900, gen |-> 0]) @@
    (<<Bucket, KeyText>> :> [format |-> "none", width |-> 0, height |-> 0,
                             intact |-> "no", size |-> 12, gen |-> 0])

None == [none |-> TRUE]

RegisteredFormats == {"gif", "jpeg", "png"}

\* image.DecodeConfig: reads the header only
DecodeConfig(bytes) ==
    IF bytes.intact \in {"ok", "header"} /\ bytes.format \in RegisteredFormats
    THEN [ok |-> TRUE, Width |-> bytes.width, Height |-> bytes.height, format |-> bytes.format]
    ELSE [ok |-> FALSE]

\* image.Decode: reads header and pixel data
DecodeLenient(bytes) ==
    IF bytes.intact \in {"ok", "header"} /\ bytes.format \in RegisteredFormats
    THEN [ok |-> TRUE, img |-> [width |-> bytes.width, height |-> bytes.height, gen |-> bytes.gen],
          format |-> bytes.format]
    ELSE [ok |-> FALSE]
Decode(bytes) ==
    IF bytes.intact = "ok" /\ bytes.format \in RegisteredFormats
    THEN [ok |-> TRUE, img |-> [width |-> bytes.width, height |-> bytes.height, gen |-> bytes.gen],
          format |-> bytes.format]
    ELSE [ok |-> FALSE]

\* convertToJPEG (jpeg.Encode into a bytes.Buffer at quality 100): fails only
\* for an image too large for the format; the byte length of the output is a
\* function of the image, stood for by its pixel count
convertToJPEG(image) ==
    IF image.width >= JpegMaxDim \/ image.height >= JpegMaxDim
    THEN [ok |-> FALSE]
    ELSE [ok |-> TRUE,
          bytes |-> [format |-> "jpeg", width |-> image.width, height |-> image.height,
                     intact |-> "ok", size |-> image.width * image.height,
                     gen |-> image.gen + 1]]

\* resize.Resize(width, 0, img, resize.Lanczos3) of nfnt/resize: the output
\* has the requested width whatever the source width; the height is
\* uint(0.7 + srcHeight / (srcWidth / width)); equal dimensions return img
Resize(width, image) ==
    LET height == (10 * image.height * width + 7 * image.width) \div (10 * image.width)
    IN IF width = image.width /\ height = image.height THEN image
       ELSE [width |-> width, height |-> height, gen |-> image.gen]

(***************************************************************************)
(* Message bodies: JSON text as a sequence of tokens.                      *)
(***************************************************************************)
\* json.Marshal of struct{Bucket `json:"bucket"`; Key `json:"key"`}
MarshalSwapped(bucket, key) ==
    <<"{", "\"bucket\"", ":", key, ",", "\"key\"", ":", bucket, "}">>
Marshal(bucket, key) ==
    <<"{", "\"bucket\"", ":", bucket, ",", "\"key\"", ":", key, "}">>

\* a body cut off in the middle of the object
Malformed == <<"{", "\"bucket\"", ":">>

\* json.Unmarshal into messageBody
Unmarshal(text) ==
    IF /\ Len(text) = 9
       /\ text[1] = "{" /\ text[2] = "\"bucket\"" /\ text[3] = ":" /\ text[5] = ","
       /\ text[6] = "\"key\"" /\ text[7] = ":" /\ text[9] = "}"
    THEN [ok |-> TRUE, Bucket |-> text[4], Key |-> text[8]]
    ELSE [ok |-> FALSE]

\* time.Format(time.RFC3339): whole seconds; the clock counts half seconds
RFC3339(t) == t \div 2


(***************************************************************************)
(* State.                                                                  *)
(***************************************************************************)
VARIABLES
    worker,      \* which handler this Lambda function runs
    records,     \* event.Records: the batch the queue (or S3) delivers
    deliveries,  \* number of invocations made with this batch
    pc,          \* position of the handler
    i,           \* index of the record the loop is at
    ret,         \* what the invocation returned: "none", "nil", "err"
    body,        \* messageBody of the current record
    objOutput,   \* bytes fetched by getObject
    img,         \* decoded image
    jpegImg,     \* encoded output
    tmpFile,     \* the metadata extractor's file under /tmp
    metadata,    \* the metadata map of the current record
    wg,          \* sync.WaitGroup counter of the resizer
    spawned,     \* number of goroutines started for the current record
    tasks,       \* resize goroutines: <<delivery, record, task>> -> state
    blobs,       \* S3: <<bucket, key>> -> bytes
    table,       \* DynamoDB table: name -> item
    topic,       \* SNS topic: messages published, in order
    now,         \* wall clock, in half seconds
    faults,      \* failed collaborator calls so far
    trace,       \* history: steps executed, per delivery and record
    returns,     \* history: result and stores at each return
    input,       \* SpecName: the key extractFilename is applied to
    derived,     \* SpecName: the three workers' results for input
    parked       \* SpecOverlap: the handler state of the execution not running

locals == <<body, objOutput, img, jpegImg, tmpFile, metadata>>
stores == <<blobs, table, topic>>
joinState == <<wg, spawned, tasks>>
naming == <<input, derived>>
vars == <<worker, records, deliveries, pc, i, ret, locals, joinState, stores,
          now, faults, trace, returns, naming, parked>>

\* S3 event records of the notifier and SQS message bodies of the workers
S3Records == {[Bucket |-> Bucket, Key |-> k] : k \in Keys}
Bodies == {Marshal(Bucket, k) : k \in Keys} \cup {Malformed}

SeqsUpTo(S, n) == UNION {[1..m -> S] : m \in 1..n}

\* the state before the first invocation
InitStores ==
    /\ deliveries = 0
    /\ pc = "idle"
    /\ i = 0
    /\ ret = "none"
    /\ body = None /\ objOutput = None /\ img = None /\ jpegImg = None
    /\ tmpFile = None /\ metadata = None
    /\ wg = 0 /\ spawned = 0 /\ tasks = <<>>
    /\ blobs = SourceObjects
    /\ table = <<>>
    /\ topic = <<>>
    /\ now = 0
    /\ faults = 0
    /\ trace = {}
    /\ returns = <<>>
    /\ parked = None

Init ==
    /\ worker \in Workers
    /\ records \in IF worker = "notifier" THEN SeqsUpTo(S3Records, MaxBatch)
                   ELSE SeqsUpTo(Bodies, MaxBatch)
    /\ InitStores
    /\ input = <<>> /\ derived = None

(***************************************************************************)
(* Collaborators.                                                          *)
(***************************************************************************)
\* overwrite-semantics put into a store
Put(store, k, v) == [x \in DOMAIN store \cup {k} |-> IF x = k THEN v ELSE store[x]]

CanFail == faults < MaxFaults

\* a step of the handler (task 0) or of a resize goroutine, its outcome and,
\* for a put or a publish, the place written to
StepAt(name, ok, task, at) ==
    [d |-> deliveries, i |-> i, step |-> name, ok |-> ok, task |-> task, at |-> at]
Step(name, ok) == StepAt(name, ok, 0, <<>>)

ClearLocals ==
    /\ body' = None /\ objOutput' = None /\ img' = None /\ jpegImg' = None
    /\ tmpFile' = None /\ metadata' = None

\* return r from the handler; b and t are the stores at that moment
Return(r, b, t) ==
    /\ pc' = "returned"
    /\ ret' = r
    /\ returns' = Append(returns, [ret |-> r, blobs |-> b, table |-> t])
    /\ ClearLocals

\* the end of the loop body: the next record, or return nil after the last
NextRecord(b, t) ==
    IF i < Len(records)
    THEN /\ i' = i + 1
         /\ pc' = "record"
         /\ ClearLocals
         /\ UNCHANGED <<ret, returns>>
    ELSE /\ Return("nil", b, t)
         /\ UNCHANGED i

\* the runtime invokes the handler with the batch: the first delivery, a
\* redelivery after an error, or a duplicate delivery
Deliver ==
    /\ pc \in {"idle", "returned"}
    /\ deliveries < MaxDeliveries
    /\ deliveries' = deliveries + 1
    /\ pc' = "config"
    /\ i' = 0
    /\ ret' = "none"
    /\ UNCHANGED <<worker, records, locals, joinState, stores, now, faults, trace,
                   returns, naming, parked>>

\* for _, record := range event.Records: every invocation starts at the first
\* record of the batch, whatever earlier invocations did
LoopStartAtFailed ==
    LET failed == {e \in trace : e.d = deliveries - 1 /\ ~e.ok /\ e.task = 0}
    IN IF failed = {} THEN 1 ELSE (CHOOSE e \in failed : TRUE).i
LoopStart == 1

\* config.LoadDefaultConfig and the client constructors, then the loop head
LoadConfig ==
    /\ pc = "config"
    /\ \/ /\ i' = LoopStart
          /\ pc' = "record"
          /\ UNCHANGED <<ret, returns, locals, faults>>
       \/ /\ CanFail
          /\ faults' = faults + 1
          /\ Return("err", blobs, table)
          /\ UNCHANGED i
    /\ UNCHANGED <<worker, records, deliveries, joinState, stores, now, trace, naming, parked>>

(***************************************************************************)
(* Upload notifier.                                                        *)
(***************************************************************************)
\* if err != nil after snsClient.Publish: log and return err
OnPublishErrorContinue == NextRecord(blobs, table)
OnPublishError == Return("err", blobs, table) /\ UNCHANGED i

\* one iteration of the loop over s3Event.Records: marshal and publish
NotifierPublish ==
    /\ worker = "notifier"
    /\ pc = "record"
    /\ LET record == records[i]
           message == Marshal(record.Bucket, record.Key)
       IN \/ /\ topic' = Append(topic, [Message |-> message,
                                        TopicArn |-> newImageUploadedTopicArn,
                                        d |-> deliveries, i |-> i])
             /\ trace' = trace \cup {Step("publish", TRUE)}
             /\ NextRecord(blobs, table)
             /\ UNCHANGED faults
          \/ /\ CanFail
             /\ faults' = faults + 1
             /\ trace' = trace \cup {Step("publish", FALSE)}
             /\ OnPublishError
             /\ UNCHANGED topic
    /\ UNCHANGED <<worker, records, deliveries, joinState, blobs, table, now, naming, parked>>


(***************************************************************************)
(* Steps the three queue workers have in common.                           *)
(***************************************************************************)
\* if err != nil after json.Unmarshal: log and return err (and a copy that
\* goes on to the next record)
OnParseErrorSkip == NextRecord(blobs, table)
OnParseError == Return("err", blobs, table) /\ UNCHANGED i

\* json.Unmarshal of record.Body into body
ParseRecord ==
    /\ pc = "record"
    /\ LET parsed == Unmarshal(records[i])
       IN IF parsed.ok
          THEN /\ body' = [Bucket |-> parsed.Bucket, Key |-> parsed.Key]
               /\ pc' = "fetch"
               /\ trace' = trace \cup {Step("parse", TRUE)}
               /\ UNCHANGED <<i, ret, returns, objOutput, img, jpegImg, tmpFile, metadata>>
          ELSE /\ trace' = trace \cup {Step("parse", FALSE)}
               /\ OnParseError
    /\ UNCHANGED <<worker, records, deliveries, joinState, stores, now, faults, naming, parked>>

\* getObject: s3Client.GetObject of body.Bucket, body.Key (and a copy in
\* which each invocation is served its own version of the object)
GetObjectPerInvocation(next) ==
    /\ pc = "fetch"
    /\ \/ /\ <<body.Bucket, body.Key>> \in DOMAIN blobs
          /\ objOutput' = [blobs[<<body.Bucket, body.Key>>] EXCEPT !.gen = deliveries - 1]
          /\ pc' = next
          /\ trace' = trace \cup {Step("fetch", TRUE)}
          /\ UNCHANGED <<i, ret, returns, body, img, jpegImg, tmpFile, metadata, faults>>
       \/ /\ CanFail \/ <<body.Bucket, body.Key>> \notin DOMAIN blobs
          /\ faults' = faults + 1
          /\ trace' = trace \cup {Step("fetch", FALSE)}
          /\ Return("err", blobs, table)
          /\ UNCHANGED i
    /\ UNCHANGED <<worker, records, deliveries, joinState, stores, now, naming, parked>>
GetObject(next) ==
    /\ pc = "fetch"
    /\ \/ /\ <<body.Bucket, body.Key>> \in DOMAIN blobs
          /\ objOutput' = blobs[<<body.Bucket, body.Key>>]
          /\ pc' = next
          /\ trace' = trace \cup {Step("fetch", TRUE)}
          /\ UNCHANGED <<i, ret, returns, body, img, jpegImg, tmpFile, metadata, faults>>
       \/ /\ CanFail \/ <<body.Bucket, body.Key>> \notin DOMAIN blobs
          /\ faults' = faults + 1
          /\ trace' = trace \cup {Step("fetch", FALSE)}
          /\ Return("err", blobs, table)
          /\ UNCHANGED i
    /\ UNCHANGED <<worker, records, deliveries, joinState, stores, now, naming, parked>>

\* putObject: s3Client.PutObject of the bytes at bucket, key
PutObject(bucket, key, bytes, task) ==
    \/ /\ blobs' = Put(blobs, <<bucket, key>>, bytes)
       /\ trace' = trace \cup {StepAt("put", TRUE, task, <<bucket, key>>)}
       /\ UNCHANGED faults
    \/ /\ CanFail
       /\ faults' = faults + 1
       /\ trace' = trace \cup {StepAt("put", FALSE, task, <<bucket, key>>)}
       /\ UNCHANGED blobs

(***************************************************************************)
(* Metadata extractor.                                                     *)
(***************************************************************************)
Digits == <<"0", "1", "2", "3", "4", "5", "6", "7", "8", "9">>

\* strconv.Itoa / strconv.FormatInt(n, 10) of a non-negative number
RECURSIVE Itoa(_)
Itoa(n) == IF n < 10 THEN <<Digits[n + 1]>>
           ELSE Itoa(n \div 10) \o <<Digits[(n % 10) + 1]>>

MetadataParse ==
    /\ worker = "metadata"
    /\ ParseRecord

\* generateMetadata: getObject and io.ReadAll
MetadataGetObject ==
    /\ worker = "metadata"
    /\ GetObject("writefile")

\* generateMetadata: os.WriteFile of the bytes to /tmp/Base(key) and os.Open;
\* the file's modification time is the wall clock at the write
MetadataWriteFile ==
    /\ worker = "metadata"
    /\ pc = "writefile"
    /\ \E t \in now..MaxTime :
          /\ now' = t
          /\ tmpFile' = [name |-> Base(body.Key), data |-> objOutput, modTime |-> t]
    /\ pc' = "decode"
    /\ UNCHANGED <<worker, records, deliveries, i, ret, body, objOutput, img, jpegImg,
                   metadata, joinState, stores, faults, trace, returns, naming, parked>>

\* the metadata map built from image.DecodeConfig and os.Stat of the file
MetadataOf(cfg, file) ==
    [width |-> Itoa(cfg.Width),
     height |-> Itoa(cfg.Height),
     format |-> cfg.format,
     file_size |-> Itoa(file.data.size),
     file_name |-> file.name,
     last_modified |-> RFC3339(file.modTime)]

\* generateMetadata: image.DecodeConfig, os.Stat, the metadata map; the
\* deferred os.Remove deletes the file on every way out
MetadataDecodeConfig ==
    /\ worker = "metadata"
    /\ pc = "decode"
    /\ LET cfg == DecodeConfig(tmpFile.data)
       IN IF cfg.ok
          THEN /\ metadata' = MetadataOf(cfg, tmpFile)
               /\ tmpFile' = None
               /\ pc' = "put"
               /\ trace' = trace \cup {Step("decode", TRUE)}
               /\ UNCHANGED <<i, ret, returns, body, objOutput, img, jpegImg>>
          ELSE /\ trace' = trace \cup {Step("decode", FALSE)}
               /\ Return("err", blobs, table)
               /\ UNCHANGED i
    /\ UNCHANGED <<worker, records, deliveries, joinState, stores, now, faults, naming, parked>>

\* convertToAttributeValue: every value wrapped as a string attribute
convertToAttributeValue(data) == [k \in DOMAIN data |-> [S |-> data[k]]]

\* createDynamoDBItem of the item keyed by the derived name
MetadataPutItem ==
    /\ worker = "metadata"
    /\ pc = "put"
    /\ LET item == [name |-> [S |-> extractFilenameMetadata(body.Key)],
                    bucket |-> [S |-> body.Bucket],
                    metadata |-> [M |-> convertToAttributeValue(metadata)]]
           at == <<tableName, item.name.S>>
       IN \/ /\ table' = Put(table, item.name.S, item)
             /\ trace' = trace \cup {StepAt("put", TRUE, 0, at)}
             /\ NextRecord(blobs, table')
             /\ UNCHANGED faults
          \/ /\ CanFail
             /\ faults' = faults + 1
             /\ trace' = trace \cup {StepAt("put", FALSE, 0, at)}
             /\ Return("err", blobs, table)
             /\ UNCHANGED <<table, i>>
    /\ UNCHANGED <<worker, records, deliveries, joinState, blobs, topic, now, naming, parked>>

(***************************************************************************)
(* Converter.                                                              *)
(***************************************************************************)
ConverterParse ==
    /\ worker = "converter"
    /\ ParseRecord

ConverterGetObject ==
    /\ worker = "converter"
    /\ GetObject("decode")

\* image.Decode of objOutput.Body (and a copy that goes on after an error)
DecodeImageNoCheck(next) ==
    /\ pc = "decode"
    /\ img' = [width |-> objOutput.width, height |-> objOutput.height, gen |-> objOutput.gen]
    /\ pc' = next
    /\ trace' = trace \cup {Step("decode", Decode(objOutput).ok)}
    /\ UNCHANGED <<i, ret, returns, body, objOutput, jpegImg, tmpFile, metadata>>
    /\ UNCHANGED <<worker, records, deliveries, joinState, stores, now, faults, naming, parked>>
DecodeImage(next) ==
    /\ pc = "decode"
    /\ LET decoded == Decode(objOutput)
       IN IF decoded.ok
          THEN /\ img' = decoded.img
               /\ pc' = next
               /\ trace' = trace \cup {Step("decode", TRUE)}
               /\ UNCHANGED <<i, ret, returns, body, objOutput, jpegImg, tmpFile, metadata>>
          ELSE /\ trace' = trace \cup {Step("decode", FALSE)}
               /\ Return("err", blobs, table)
               /\ UNCHANGED i
    /\ UNCHANGED <<worker, records, deliveries, joinState, stores, now, faults, naming, parked>>

ConverterDecode ==
    /\ worker = "converter"
    /\ DecodeImage("encode")

\* jpegImg, err := convertToJPEG(img)
ConverterEncode ==
    /\ worker = "converter"
    /\ pc = "encode"
    /\ LET encoded == convertToJPEG(img)
       IN IF encoded.ok
          THEN /\ jpegImg' = encoded.bytes
               /\ pc' = "put"
               /\ trace' = trace \cup {Step("encode", TRUE)}
               /\ UNCHANGED <<i, ret, returns, body, objOutput, img, tmpFile, metadata>>
          ELSE /\ trace' = trace \cup {Step("encode", FALSE)}
               /\ Return("err", blobs, table)
               /\ UNCHANGED i
    /\ UNCHANGED <<worker, records, deliveries, joinState, stores, now, faults, naming, parked>>

\* the artifact path of the converter (and one that keeps the extension)
ConvertedPathKeepExt(key) == ConvertedFolder \o Base(key) \o JpgSuffix
ConvertedPath(key) == ConvertedFolder \o extractFilenameConverter(key) \o JpgSuffix

\* putObject of the JPEG at converted/{name}.jpg, the end of the loop body
ConverterPutObject ==
    /\ worker = "converter"
    /\ pc = "put"
    /\ PutObject(body.Bucket, ConvertedPath(body.Key), jpegImg, 0)
    /\ IF faults' = faults
       THEN NextRecord(blobs', table)
       ELSE Return("err", blobs, table) /\ UNCHANGED i
    /\ UNCHANGED <<worker, records, deliveries, joinState, table, topic, now, naming, parked>>


(***************************************************************************)
(* Resizer.                                                                *)
(***************************************************************************)
ResizerParse ==
    /\ worker = "resizer"
    /\ ParseRecord

ResizerGetObject ==
    /\ worker = "resizer"
    /\ GetObject("decode")

ResizerDecode ==
    /\ worker = "resizer"
    /\ DecodeImage("spawn")

\* the artifact path of a resize task
ResizedPath(key, sizeName) ==
    ResizedFolder \o extractFilenameResizer(key) \o <<Sep>> \o sizeName \o JpgSuffix

\* one iteration of the loop over resizeTasks: wg.Add(1) and the go statement;
\* the goroutine captures this record's body and img.  After the last
\* iteration the handler is at wg.Wait
ResizerSpawn ==
    /\ worker = "resizer"
    /\ pc = "spawn"
    /\ spawned < Len(resizeTasks)
    /\ wg' = wg + 1
    /\ spawned' = spawned + 1
    /\ tasks' = tasks @@ (<<deliveries, i, spawned + 1>> :>
                   [pc |-> "resize", task |-> resizeTasks[spawned + 1],
                    Bucket |-> body.Bucket, Key |-> body.Key, img |-> img,
                    resizedImg |-> None, jpegImg |-> None])
    /\ pc' = IF spawned + 1 = Len(resizeTasks) THEN "wait" ELSE "spawn"
    /\ UNCHANGED <<worker, records, deliveries, i, ret, locals, stores, now, faults,
                   trace, returns, naming, parked>>

\* the goroutine returns: its deferred wg.Done runs
TaskDone(g) ==
    /\ tasks' = [tasks EXCEPT ![g] = [@ EXCEPT !.pc = "done", !.img = None,
                                              !.resizedImg = None, !.jpegImg = None]]
    /\ wg' = wg - 1

TaskStep(g, name, ok, at) ==
    [d |-> g[1], i |-> g[2], step |-> name, ok |-> ok, task |-> g[3], at |-> at]

\* the task a goroutine works on: the parameter of the function literal, bound
\* at the go statement (and a copy that reads the loop variable instead)
TaskOfShared(g) == resizeTasks[spawned]
TaskOf(g) == tasks[g].task

\* resizedImg := resize.Resize(task.Width, 0, img, resize.Lanczos3); the err
\* tested next is the handler's, nil since the decode succeeded
TaskResize(g) ==
    /\ tasks[g].pc = "resize"
    /\ tasks' = [tasks EXCEPT ![g] = [@ EXCEPT !.pc = "encode",
                                              !.resizedImg = Resize(TaskOf(g).Width,
                                                                     tasks[g].img)]]
    /\ trace' = trace \cup {TaskStep(g, "resize", TRUE, <<>>)}
    /\ UNCHANGED <<worker, records, deliveries, pc, i, ret, locals, wg, spawned, stores,
                   now, faults, returns, naming, parked>>

\* jpegImg, err := convertToJPEG(resizedImg); on error the goroutine logs and
\* returns
TaskEncode(g) ==
    /\ tasks[g].pc = "encode"
    /\ LET encoded == convertToJPEG(tasks[g].resizedImg)
       IN IF encoded.ok
          THEN /\ tasks' = [tasks EXCEPT ![g] = [@ EXCEPT !.pc = "put",
                                                        !.jpegImg = encoded.bytes]]
               /\ trace' = trace \cup {TaskStep(g, "encode", TRUE, <<>>)}
               /\ UNCHANGED wg
          ELSE /\ TaskDone(g)
               /\ trace' = trace \cup {TaskStep(g, "encode", FALSE, <<>>)}
    /\ UNCHANGED <<worker, records, deliveries, pc, i, ret, locals, spawned, stores,
                   now, faults, returns, naming, parked>>

\* putObject of the JPEG at resized/{name}/{size}.jpg; on error the goroutine
\* logs and returns, as it does after a successful put
TaskPut(g) ==
    /\ tasks[g].pc = "put"
    /\ LET at == <<tasks[g].Bucket, ResizedPath(tasks[g].Key, TaskOf(g).SizeName)>>
       IN \/ /\ blobs' = Put(blobs, at, tasks[g].jpegImg)
             /\ trace' = trace \cup {TaskStep(g, "put", TRUE, at)}
             /\ UNCHANGED faults
          \/ /\ CanFail
             /\ faults' = faults + 1
             /\ trace' = trace \cup {TaskStep(g, "put", FALSE, at)}
             /\ UNCHANGED blobs
    /\ TaskDone(g)
    /\ UNCHANGED <<worker, records, deliveries, pc, i, ret, locals, spawned, table, topic,
                   now, returns, naming, parked>>

\* wg.Wait returns once the counter is zero; the handler logs "all resize
\* tasks completed" and goes on to the next record, or returns nil
WaitReturnsEarly == wg <= 1
WaitReturns == wg = 0

ResizerWait ==
    /\ worker = "resizer"
    /\ pc = "wait"
    /\ WaitReturns
    /\ spawned' = 0
    /\ NextRecord(blobs, table)
    /\ UNCHANGED <<worker, records, deliveries, wg, tasks, stores, now, faults, trace,
                   naming, parked>>

(***************************************************************************)
(* The functions under their Lambda runtimes.                              *)
(***************************************************************************)
Notifier == NotifierPublish

Metadata ==
    \/ MetadataParse
    \/ MetadataGetObject
    \/ MetadataWriteFile
    \/ MetadataDecodeConfig
    \/ MetadataPutItem

Converter ==
    \/ ConverterParse
    \/ ConverterGetObject
    \/ ConverterDecode
    \/ ConverterEncode
    \/ ConverterPutObject

\* the goroutines that run are those of the current invocation
Resizer ==
    \/ ResizerParse
    \/ ResizerGetObject
    \/ ResizerDecode
    \/ ResizerSpawn
    \/ \E g \in DOMAIN tasks : g[1] = deliveries /\ TaskResize(g)
    \/ \E g \in DOMAIN tasks : g[1] = deliveries /\ TaskEncode(g)
    \/ \E g \in DOMAIN tasks : g[1] = deliveries /\ TaskPut(g)
    \/ ResizerWait

Next ==
    \/ Deliver
    \/ LoadConfig
    \/ Notifier
    \/ Metadata
    \/ Converter
    \/ Resizer

Spec == Init /\ [][Next]_vars

\* an invocation that has started runs to its return, and the queue delivers
\* a batch that has not been delivered yet or whose handler returned an error
\* (the visibility timeout runs out); nothing makes it deliver an acked batch
\* again
HandlerStep == LoadConfig \/ Notifier \/ Metadata \/ Converter \/ Resizer
DeliverDue == Deliver /\ ret # "nil"
SpecLive == Init /\ [][Next]_vars /\ WF_vars(HandlerStep) /\ WF_vars(DeliverDue)


(***************************************************************************)
(* extractFilename on its own: the three copies applied to one key.        *)
(***************************************************************************)
Alphabet == {"a", Dot, Sep}

PhotosAaaJpg == <<"p","h","o","t","o","s","/","a","a","a",".","j","p","g">>
AaaPng == <<"a","a","a",".","p","n","g">>
Aaa == <<"a","a","a">>

NameInputs ==
    UNION {[1..m -> Alphabet] : m \in 0..MaxLen} \cup {PhotosAaaJpg, AaaPng, Aaa} \cup Keys

InitName ==
    /\ worker = "none"
    /\ records = <<>>
    /\ InitStores
    /\ input \in NameInputs
    /\ derived = None

ApplyExtractFilename ==
    /\ derived = None
    /\ derived' = [metadata |-> extractFilenameMetadata(input),
                   converter |-> extractFilenameConverter(input),
                   resizer |-> extractFilenameResizer(input)]
    /\ UNCHANGED <<worker, records, deliveries, pc, i, ret, locals, joinState, stores,
                   now, faults, trace, returns, input, parked>>

NextName == ApplyExtractFilename

SpecName == InitName /\ [][NextName]_vars

(***************************************************************************)
(* Two overlapping invocations of the converter or of the resizer with the *)
(* same message: the queue delivers the message again while the first      *)
(* invocation is still running, and a second instance of the function runs *)
(* the same handler on it.  The instances share nothing but the bucket.    *)
(* One instance takes steps at a time; parked holds the handler state of   *)
(* the other, and Switch changes over between any two steps.               *)
(***************************************************************************)
\* the handler state of the running invocation
Invocation ==
    [deliveries |-> deliveries, pc |-> pc, i |-> i, ret |-> ret, body |-> body,
     objOutput |-> objOutput, img |-> img, jpegImg |-> jpegImg, tmpFile |-> tmpFile,
     metadata |-> metadata, wg |-> wg, spawned |-> spawned]

Resume(c) ==
    /\ deliveries' = c.deliveries /\ pc' = c.pc /\ i' = c.i /\ ret' = c.ret
    /\ body' = c.body /\ objOutput' = c.objOutput /\ img' = c.img
    /\ jpegImg' = c.jpegImg /\ tmpFile' = c.tmpFile /\ metadata' = c.metadata
    /\ wg' = c.wg /\ spawned' = c.spawned

InitOverlap ==
    /\ worker \in {"converter", "resizer"}
    /\ records \in [1..1 -> Bodies]
    /\ InitStores
    /\ input = <<>> /\ derived = None

\* the first delivery of the message
DeliverFirst == Deliver /\ deliveries = 0

\* the second delivery, to a new instance, while the first invocation runs
DeliverOverlap ==
    /\ parked = None
    /\ deliveries = 1
    /\ pc \notin {"idle", "returned"}
    /\ parked' = Invocation
    /\ deliveries' = deliveries + 1
    /\ pc' = "config"
    /\ i' = 0
    /\ ret' = "none"
    /\ ClearLocals
    /\ wg' = 0 /\ spawned' = 0
    /\ UNCHANGED <<worker, records, tasks, stores, now, faults, trace, returns, naming>>

\* the other instance takes the next steps
Switch ==
    /\ parked # None
    /\ parked.pc # "returned"
    /\ parked' = Invocation
    /\ Resume(parked)
    /\ UNCHANGED <<worker, records, tasks, stores, now, faults, trace, returns, naming>>

NextOverlap ==
    \/ DeliverFirst
    \/ DeliverOverlap
    \/ Switch
    \/ LoadConfig
    \/ Converter
    \/ Resizer

SpecOverlap == InitOverlap /\ [][NextOverlap]_vars


(***************************************************************************)
(* The pipeline end to end.  The bucket notifies the notifier of a write,  *)
(* the notifier publishes the UploadEvent, the topic hands it to the three *)
(* queues, and a worker is invoked with it.  The workers upload into the   *)
(* bucket the message names, which is the bucket that notifies.  One       *)
(* invocation runs at a time; a behaviour follows one chain of writes.     *)
(***************************************************************************)
InitPipeline ==
    /\ worker = "notifier"
    /\ records \in [1..1 -> S3Records]
    /\ InitStores
    /\ input = <<>> /\ derived = None

\* a new invocation of function w with the batch b
Invoke(w, b) ==
    /\ deliveries < MaxHops
    /\ worker' = w
    /\ records' = b
    /\ deliveries' = deliveries + 1
    /\ pc' = "config"
    /\ i' = 0
    /\ ret' = "none"
    /\ UNCHANGED <<locals, joinState, stores, now, faults, trace, returns, naming, parked>>

\* the topic hands the message just published to a queue, and the queue to
\* its worker
Subscribe ==
    /\ worker = "notifier"
    /\ pc = "returned" /\ ret = "nil"
    /\ topic # <<>>
    /\ \E w \in {"metadata", "converter", "resizer"} :
           Invoke(w, <<topic[Len(topic)].Message>>)

\* the bucket notifies the notifier of an object the invocation that just
\* returned has written
S3Notify ==
    /\ worker \in {"converter", "resizer"}
    /\ pc = "returned"
    /\ \E e \in {f \in trace : f.step = "put" /\ f.ok /\ f.d = deliveries} :
           Invoke("notifier", <<[Bucket |-> e.at[1], Key |-> e.at[2]]>>)

NextPipeline ==
    \/ DeliverFirst
    \/ Subscribe
    \/ S3Notify
    \/ LoadConfig
    \/ Notifier
    \/ Metadata
    \/ Converter
    \/ Resizer

SpecPipeline == InitPipeline /\ [][NextPipeline]_vars

(***************************************************************************)
(* Properties.                                                             *)
(***************************************************************************)
\* steps recorded for record idx of delivery d
Events(d, idx) == {e \in trace : e.d = d /\ e.i = idx}

\* the source object record idx of an SQS batch names
RecordBytes(idx) ==
    LET parsed == Unmarshal(records[idx])
    IN SourceObjects[<<parsed.Bucket, parsed.Key>>]

QueueWorker == worker \in {"metadata", "converter", "resizer"}

\* C1: whenever the resizer's handler returns success, every record of the
\* batch has had all three artifacts uploaded successfully in that
\* invocation; a failed encode or upload of a resize task makes the
\* invocation return an error.
C1_ResizerReportsTaskFailure ==
    worker = "resizer" =>
        \A d \in 1..Len(returns) :
            returns[d].ret = "nil" =>
                \A idx \in 1..Len(records) : \A t \in TaskIds :
                    \E e \in Events(d, idx) : e.task = t /\ e.step = "put" /\ e.ok

\* C2: a resize goroutine that has not terminated belongs to the record the
\* handler is at, and the handler is spawning or waiting: it has neither
\* started the next record nor returned.
C2_ResizerJoin ==
    \A g \in DOMAIN tasks :
        tasks[g].pc # "done" =>
            /\ g[1] = deliveries
            /\ g[2] = i
            /\ pc \in {"spawn", "wait"}

\* C2 witness: the handler is at the second record of a batch after the three
\* goroutines of the first record ran to their end.
C2_Witness ==
    /\ worker = "resizer"
    /\ pc = "record"
    /\ i = 2
    /\ \A t \in TaskIds :
          /\ <<deliveries, 1, t>> \in DOMAIN tasks
          /\ tasks[<<deliveries, 1, t>>].pc = "done"

\* C3: two successful runs of the converter (of the resizer) over the same
\* batch leave the blob store as the first run left it.
C3_BlobIdempotence ==
    (worker \in {"converter", "resizer"} /\ Len(returns) >= 2) =>
        ((returns[1].ret = "nil" /\ returns[2].ret = "nil") =>
            returns[2].blobs = returns[1].blobs)

\* C4: two successful runs of the metadata extractor over the same batch
\* leave the table as the first run left it, last_modified included.
C4_RecordIdempotence ==
    (worker = "metadata" /\ Len(returns) >= 2) =>
        ((returns[1].ret = "nil" /\ returns[2].ret = "nil") =>
            returns[2].table = returns[1].table)

\* C5 as stated: a record whose fetched bytes do not decode as an image
\* (header or pixel data unreadable) gets no put in any of the three workers,
\* and the invocation returns an error.
C5_UndecodableNeverWritten ==
    QueueWorker =>
        \A d \in 1..deliveries : \A idx \in 1..Len(records) :
            (/\ \E e \in Events(d, idx) : e.step = "fetch" /\ e.ok
             /\ RecordBytes(idx).intact # "ok") =>
                /\ \A e \in Events(d, idx) : e.step # "put"
                /\ Len(returns) >= d => returns[d].ret = "err"

\* what the decode step of each worker cannot read: the metadata extractor
\* reads the header only, the converter and the resizer the whole image
Unreadable(bytes) ==
    IF worker = "metadata" THEN bytes.intact = "no" ELSE bytes.intact # "ok"

\* C5: a record whose fetched bytes the worker's own decode step cannot read
\* (image.DecodeConfig in the metadata extractor, image.Decode in the
\* converter and the resizer) fails at the decode step, gets no put and no
\* resize task, the invocation returns an error, and the steps taken on that
\* record leave the stores as they were.
C5_DecodeFailureContained ==
    /\ [](QueueWorker =>
            \A d \in 1..deliveries : \A idx \in 1..Len(records) :
                (/\ \E e \in Events(d, idx) : e.step = "fetch" /\ e.ok
                 /\ Unreadable(RecordBytes(idx))) =>
                    /\ \A e \in Events(d, idx) :
                          /\ e.step \notin {"put", "resize", "encode"}
                          /\ e.step = "decode" => ~e.ok
                    /\ Len(returns) >= d => returns[d].ret = "err")
    /\ [][(/\ QueueWorker
           /\ pc \in {"fetch", "writefile", "decode"}
           /\ Unreadable(blobs[<<body.Bucket, body.Key>>]))
              => (blobs' = blobs /\ table' = table)]_vars

\* C5 witness: the second record of a batch failed at its decode step after
\* the first record was written, and the handler returned the error.
C5_Witness ==
    /\ QueueWorker
    /\ pc = "returned"
    /\ ret = "err"
    /\ \E e \in Events(deliveries, 2) : e.step = "decode" /\ ~e.ok
    /\ \E e \in Events(deliveries, 1) : e.step = "put" /\ e.ok

\* the messages delivery d of the notifier published, in topic order
PublishedBy(d) ==
    LET ByD(m) == m.d = d
    IN SelectSeq(topic, ByD)

\* C6: in every invocation of the notifier the k-th message published is the
\* JSON {bucket, key} of the k-th record, so there is at most one per record
\* and they come in record order; a successful invocation published one
\* message for every record.
C6_NotifierPublishesEachOnce ==
    worker = "notifier" =>
        \A d \in 1..deliveries :
            LET pub == PublishedBy(d)
            IN /\ Len(pub) <= Len(records)
               /\ \A k \in 1..Len(pub) :
                     /\ pub[k].i = k
                     /\ pub[k].TopicArn = newImageUploadedTopicArn
                     /\ Unmarshal(pub[k].Message) =
                            [ok |-> TRUE, Bucket |-> records[k].Bucket, Key |-> records[k].Key]
               /\ (Len(returns) >= d /\ returns[d].ret = "nil") => Len(pub) = Len(records)

\* C6 witness: a successful invocation with two records has returned.
C6_Witness ==
    /\ worker = "notifier"
    /\ pc = "returned"
    /\ ret = "nil"
    /\ Len(records) = 2
    /\ Len(PublishedBy(deliveries)) = 2

\* C7: when the publish for record idx fails, the invocation has returned an
\* error and published exactly the records before idx; every invocation,
\* a retry included, publishes from the first record on, whatever earlier
\* invocations published.
C7_NotifierErrorPath ==
    worker = "notifier" =>
        /\ \A e \in trace :
              (e.step = "publish" /\ ~e.ok) =>
                  /\ Len(returns) >= e.d
                  /\ returns[e.d].ret = "err"
                  /\ Len(PublishedBy(e.d)) = e.i - 1
        /\ \A d \in 1..deliveries :
              \A k \in 1..Len(PublishedBy(d)) : PublishedBy(d)[k].i = k
        /\ \A d \in 1..deliveries :
              (d < deliveries \/ pc = "returned") =>
                  \/ Len(PublishedBy(d)) = Len(records)
                  \/ returns[d].ret = "err"

\* C7 witness: the first invocation published record 1 and failed at record
\* 2; the retry has published record 1 a second time.
C7_Witness ==
    /\ worker = "notifier"
    /\ \E e \in trace : e.step = "publish" /\ ~e.ok /\ e.d = 1 /\ e.i = 2
    /\ Len(PublishedBy(1)) = 1
    /\ Len(PublishedBy(2)) >= 1
    /\ PublishedBy(2)[1].Message = PublishedBy(1)[1].Message

\* C8: in the metadata extractor and the converter, a record is touched only
\* after every earlier record of the same invocation was put successfully;
\* a failed step at record idx ends the invocation with an error and nothing
\* is recorded for a later record; what was put before the failure is in the
\* store when the handler returns; and every invocation, a redelivery
\* included, starts over at the first record.
C8_BatchAllOrNothing ==
    worker \in {"metadata", "converter"} =>
        /\ \A e \in trace : \A k \in 1..(e.i - 1) :
              \E f \in Events(e.d, k) : f.step = "put" /\ f.ok
        /\ \A e \in trace :
              ~e.ok =>
                  /\ Len(returns) >= e.d
                  /\ returns[e.d].ret = "err"
                  /\ \A f \in trace : f.d = e.d => f.i <= e.i
        /\ \A e \in trace :
              (e.step = "put" /\ e.ok /\ Len(returns) >= e.d) =>
                  IF worker = "metadata"
                  THEN e.at[2] \in DOMAIN returns[e.d].table
                  ELSE e.at \in DOMAIN returns[e.d].blobs
        /\ \A k \in 1..(i - 1) :
              \E f \in Events(deliveries, k) : f.step = "put" /\ f.ok

\* C8 witness: the first delivery put record 1 and failed at record 2; in the
\* redelivery record 1 has been put again.
C8_Witness ==
    /\ worker \in {"metadata", "converter"}
    /\ deliveries = 2
    /\ \E e \in Events(1, 2) : ~e.ok
    /\ \E e \in Events(1, 1) : e.step = "put" /\ e.ok
    /\ \E e \in Events(2, 1) : e.step = "put" /\ e.ok

\* C9: the output a resize task is about to upload has the task's width when
\* the source is wider than that, and the source's width otherwise.
C9_NoUpscaling ==
    \A g \in DOMAIN tasks :
        tasks[g].pc = "put" =>
            tasks[g].jpegImg.width =
                IF tasks[g].img.width > tasks[g].task.Width
                THEN tasks[g].task.Width
                ELSE tasks[g].img.width

\* the name is the key without its directory part, its last extension and
\* its trailing separators
IsBaseNameWithoutExt(key, name) ==
    \E p \in 0..Len(key) : \E q \in p..Len(key) : \E r \in q..Len(key) :
        LET dir == SubSeq(key, 1, p)
            ext == SubSeq(key, q + 1, r)
            rest == SubSeq(key, r + 1, Len(key))
        IN /\ name = SubSeq(key, p + 1, q)
           /\ p > 0 => dir[p] = Sep
           /\ \A k \in (p + 1)..r : key[k] # Sep
           /\ r > p
           /\ \A k \in 1..Len(rest) : rest[k] = Sep
           /\ IF ext = <<>> THEN \A k \in 1..Len(name) : name[k] # Dot
              ELSE /\ ext[1] = Dot
                   /\ \A k \in 2..Len(ext) : ext[k] # Dot

\* C10: the three copies of extractFilename give the same name for every
\* key; it is "aaa" for photos/aaa.jpg, aaa.png and aaa; and for a key with a
\* file name in it, it is that name without directory and last extension.
C10_FilenameDerivation ==
    derived # None =>
        /\ derived.metadata = derived.converter
        /\ derived.converter = derived.resizer
        /\ input \in {PhotosAaaJpg, AaaPng, Aaa} => derived.metadata = Aaa
        /\ (\E k \in 1..Len(input) : input[k] # Sep) =>
              IsBaseNameWithoutExt(input, derived.metadata)

\* C10 witness: the name of a key with a directory and two dots was derived.
C10_Witness ==
    /\ derived # None
    /\ input = <<"a", Sep, Dot, Dot>>
    /\ derived.resizer = <<Dot>>


\* the bucket and key the message of record idx names
RecordOf(idx) == Unmarshal(records[idx])

\* successful puts recorded so far
PutsDone == {e \in trace : e.step = "put" /\ e.ok}

SizeNames ==
    {<<"t","h","u","m","b","n","a","i","l">>, <<"m","e","d","i","u","m">>,
     <<"l","a","r","g","e">>}

\* path is prefix \o name \o suffix for the name key derives
IsArtifactPath(key, path, prefix, suffix) ==
    /\ Len(path) >= Len(prefix) + Len(suffix)
    /\ Take(path, Len(prefix)) = prefix
    /\ Drop(path, Len(path) - Len(suffix)) = suffix
    /\ IsBaseNameWithoutExt(key, SubSeq(path, Len(prefix) + 1, Len(path) - Len(suffix)))

IsConvertedPath(key, path) ==
    IsArtifactPath(key, path, <<"c","o","n","v","e","r","t","e","d","/">>,
                   <<".","j","p","g">>)

IsResizedPath(key, path) ==
    \E size \in SizeNames :
        IsArtifactPath(key, path, <<"r","e","s","i","z","e","d","/">>,
                       <<"/">> \o size \o <<".","j","p","g">>)

\* C11: every upload of the converter goes to converted/{DerivedName}.jpg and
\* every upload of the resizer to resized/{DerivedName}/{size}.jpg, in the
\* bucket the message names; uploads for the same key and the same task go to
\* the same path; the other two functions write no blob; converter paths and
\* resizer paths begin differently, so no path belongs to both; and no step
\* removes a blob or a record.
C11_StorageLayout ==
    /\ [](/\ worker \in {"metadata", "notifier"} => blobs = SourceObjects
          /\ QueueWorker =>
                DOMAIN blobs \subseteq
                    DOMAIN SourceObjects \cup {e.at : e \in PutsDone})
    /\ [][/\ DOMAIN blobs \subseteq DOMAIN blobs'
          /\ DOMAIN table \subseteq DOMAIN table'
          /\ \A e \in trace' \ trace :
                (e.step = "put" /\ e.ok) =>
                    /\ worker = "converter" =>
                          /\ e.at[1] = RecordOf(e.i).Bucket
                          /\ IsConvertedPath(RecordOf(e.i).Key, e.at[2])
                          /\ Take(e.at[2], 3) = <<"c","o","n">>
                    /\ worker = "resizer" =>
                          /\ e.at[1] = RecordOf(e.i).Bucket
                          /\ IsResizedPath(RecordOf(e.i).Key, e.at[2])
                          /\ Take(e.at[2], 3) = <<"r","e","s">>
                    /\ \A f \in PutsDone :
                          (QueueWorker /\ RecordOf(e.i) = RecordOf(f.i)
                                       /\ e.task = f.task) => e.at = f.at]_vars

\* C11 witness: the resizer uploaded the three artifacts of a/x.png.
C11_Witness ==
    /\ worker = "resizer"
    /\ \A size \in SizeNames :
          <<Bucket, <<"r","e","s","i","z","e","d","/","x","/">> \o size \o <<".","j","p","g">>>>
              \in DOMAIN blobs


\* the steps the handler itself recorded for record idx of delivery d
HandlerSteps(d, idx) == {e.step : e \in {f \in Events(d, idx) : f.task = 0}}

\* the steps before the put, in order
StepsBefore(position) ==
    CASE position = "record" -> {}
      [] position = "fetch" -> {"parse"}
      [] position \in {"writefile", "decode"} -> {"parse", "fetch"}
      [] position \in {"encode", "spawn", "wait"} -> {"parse", "fetch", "decode"}
      [] position = "put" -> IF worker = "converter"
                             THEN {"parse", "fetch", "decode", "encode"}
                             ELSE {"parse", "fetch", "decode"}
      [] OTHER -> {}

\* C12: while the handler is inside a record, the steps taken on it so far
\* are exactly the earlier steps of parse, fetch, decode, transform, put, and
\* all of them succeeded; once a record has its put or a failed step, the
\* handler has left it (next record or return), so the put is the last step
\* and happens at most once; a resize goroutine exists only for a record
\* that was parsed, fetched and decoded, and encodes only what it resized and
\* uploads only what it encoded.
C12_StepOrder ==
    QueueWorker =>
        /\ pc \in {"record", "fetch", "writefile", "decode", "encode", "put", "spawn", "wait"} =>
              /\ HandlerSteps(deliveries, i) = StepsBefore(pc)
              /\ \A e \in Events(deliveries, i) : e.task = 0 => e.ok
        /\ \A e \in trace :
              (e.task = 0 /\ (e.step = "put" \/ ~e.ok)) =>
                  \/ e.d < deliveries
                  \/ e.i < i
                  \/ pc = "returned"
        /\ \A e \in trace :
              e.task = 0 =>
                  \A earlier \in StepsBefore(IF e.step = "parse" THEN "record" ELSE e.step) :
                      \E f \in Events(e.d, e.i) :
                          f.task = 0 /\ f.step = earlier /\ f.ok
        /\ \A g \in DOMAIN tasks :
              \A earlier \in {"parse", "fetch", "decode"} :
                  \E f \in Events(g[1], g[2]) : f.task = 0 /\ f.step = earlier /\ f.ok
        /\ \A e \in trace :
              e.task # 0 =>
                  /\ <<e.d, e.i, e.task>> \in DOMAIN tasks
                  /\ e.step \in {"encode", "put"} =>
                        \E f \in Events(e.d, e.i) :
                            f.task = e.task /\ f.ok
                                /\ f.step = (IF e.step = "put" THEN "encode" ELSE "resize")

\* C12 witness: the converter is about to put the second record of a batch,
\* after parse, fetch, decode and encode of it, and after the put of the first.
C12_Witness ==
    /\ worker = "converter"
    /\ pc = "put"
    /\ i = 2
    /\ \E e \in Events(deliveries, 1) : e.step = "put" /\ e.ok


\* goroutines that have not returned
LiveTasks == {g \in DOMAIN tasks : tasks[g].pc # "done"}

\* goroutines started for record idx of delivery d
TasksOf(d, idx) == {g \in DOMAIN tasks : g[1] = d /\ g[2] = idx}

\* C13: at most three resize goroutines are live; the live ones were started
\* for the record the handler is at; and a record whose spawning is over has
\* exactly three goroutines, one for each of thumbnail, medium and large,
\* while a record that was not decoded has none.
C13_BoundedParallelism ==
    /\ Cardinality(LiveTasks) <= 3
    /\ \A g \in LiveTasks : g[1] = deliveries /\ g[2] = i
    /\ \A d \in 1..deliveries : \A idx \in 1..Len(records) :
          LET decoded == \E e \in Events(d, idx) : e.step = "decode" /\ e.ok
              spawning == d = deliveries /\ idx = i /\ pc \in {"decode", "spawn"}
          IN /\ Cardinality(TasksOf(d, idx)) <= 3
             /\ (worker = "resizer" /\ decoded /\ ~spawning) =>
                   /\ Cardinality(TasksOf(d, idx)) = 3
                   /\ {tasks[g].task.SizeName : g \in TasksOf(d, idx)} = SizeNames
             /\ ~decoded => TasksOf(d, idx) = {}

\* C13 witness: the three goroutines of the second record are live at once.
C13_Witness ==
    /\ pc = "wait"
    /\ i = 2
    /\ Cardinality(LiveTasks) = 3
    /\ Cardinality(DOMAIN tasks) = 6


\* the size specs by position in the slice
WidthOfTask == <<100, 500, 1000>>
NameOfTask ==
    << <<"t","h","u","m","b","n","a","i","l">>, <<"m","e","d","i","u","m">>,
       <<"l","a","r","g","e">> >>

\* what goroutine g makes of the source bytes of its record at its own width
ResizedFrom(bytes, width) ==
    [width |-> width,
     height |-> (10 * bytes.height * width + 7 * bytes.width) \div (10 * bytes.width),
     gen |-> bytes.gen]

\* C14: whatever the interleaving, a resize goroutine works on the decoded
\* image of its own record at its own width and uploads the result under its
\* own size name; while goroutines are live the handler changes neither the
\* body nor the image nor the record index, what a goroutine captured stays as
\* it was, and a step changes the state of at most one goroutine.
C14_TaskIsolation ==
    /\ [](\A g \in LiveTasks :
            LET bytes == RecordBytes(g[2])
                out == ResizedFrom(bytes, WidthOfTask[g[3]])
            IN /\ tasks[g].Key = RecordOf(g[2]).Key
               /\ tasks[g].img = [width |-> bytes.width, height |-> bytes.height,
                                  gen |-> bytes.gen]
               /\ tasks[g].pc \in {"encode", "put"} => tasks[g].resizedImg = out
               /\ tasks[g].pc = "put" =>
                     tasks[g].jpegImg =
                         [format |-> "jpeg", width |-> out.width, height |-> out.height,
                          intact |-> "ok", size |-> out.width * out.height,
                          gen |-> bytes.gen + 1])
    /\ [][/\ \A e \in trace' \ trace :
                (e.task # 0 /\ e.step = "put") =>
                    IsArtifactPath(RecordOf(e.i).Key, e.at[2],
                                   <<"r","e","s","i","z","e","d","/">>,
                                   <<"/">> \o NameOfTask[e.task] \o <<".","j","p","g">>)
          /\ LiveTasks # {} =>
                /\ body' = body /\ img' = img /\ i' = i /\ deliveries' = deliveries
                /\ Cardinality({g \in DOMAIN tasks : tasks'[g] # tasks[g]}) <= 1
                /\ \A g \in LiveTasks :
                      /\ tasks'[g].task = tasks[g].task
                      /\ tasks'[g].Bucket = tasks[g].Bucket
                      /\ tasks'[g].Key = tasks[g].Key
                      /\ tasks'[g].pc # "done" => tasks'[g].img = tasks[g].img]_vars

\* C14 witness: the goroutines of one record are at three different places:
\* the first is about to upload, the second has returned, the third has not
\* begun.
C14_Witness ==
    /\ <<1, 1, 3>> \in DOMAIN tasks
    /\ tasks[<<1, 1, 1>>].pc = "put"
    /\ tasks[<<1, 1, 2>>].pc = "done"
    /\ tasks[<<1, 1, 3>>].pc = "resize"


\* C17 as stated: a batch with a malformed body or with bytes that do not
\* decode as an image (header or pixel data unreadable) never returns
\* success, in any of the three workers, and no record after the first such
\* message is touched in any delivery.
C17_PoisonNeverAcked ==
    QueueWorker =>
        \A idx \in 1..Len(records) :
            (~RecordOf(idx).ok \/ RecordBytes(idx).intact # "ok") =>
                /\ \A d \in 1..Len(returns) : returns[d].ret = "err"
                /\ \A e \in trace : e.i <= idx

\* a message no delivery can get past: its body does not parse, or the
\* worker's own decode step cannot read its bytes
Permanent(idx) == ~RecordOf(idx).ok \/ Unreadable(RecordBytes(idx))

\* C17: a batch with a malformed body, or with bytes the worker's own decode
\* step cannot read, returns an error from every delivery, and no record
\* after the first such message is touched in any delivery.
C17_PermanentFailure ==
    QueueWorker =>
        \A idx \in 1..Len(records) :
            Permanent(idx) =>
                /\ \A d \in 1..Len(returns) : returns[d].ret = "err"
                /\ \A e \in trace : e.i <= idx
                /\ i <= idx

\* C17 witness: a batch of two whose first body is malformed was delivered
\* twice; both deliveries returned the error and the second record was never
\* touched.
C17_Witness ==
    /\ QueueWorker
    /\ Len(records) = 2
    /\ records[1] = Malformed
    /\ Len(returns) = 2
    /\ returns[1].ret = "err" /\ returns[2].ret = "err"
    /\ \E e \in Events(2, 1) : e.step = "parse" /\ ~e.ok
    /\ Events(1, 2) = {} /\ Events(2, 2) = {}


\* C19: two messages for different keys never write to the same artifact
\* path or MetadataRecord key: any two successful puts to the same place come
\* from messages naming the same source key.
C19_NoCrossObjectOverwrite ==
    QueueWorker =>
        \A e1, e2 \in PutsDone :
            e1.at = e2.at => RecordOf(e1.i).Key = RecordOf(e2.i).Key


\* the outputs the worker owes for the record at idx are in the stores
OutputsExist(idx) ==
    LET key == RecordOf(idx).Key
    IN /\ RecordOf(idx).ok
       /\ worker = "metadata" =>
            \E n \in DOMAIN table : IsBaseNameWithoutExt(key, n)
       /\ worker = "converter" =>
            \E p \in DOMAIN blobs : IsConvertedPath(key, p[2])
       /\ worker = "resizer" =>
            \A size \in SizeNames :
                \E p \in DOMAIN blobs :
                    IsArtifactPath(key, p[2], <<"r","e","s","i","z","e","d","/">>,
                                   <<"/">> \o size \o <<".","j","p","g">>)

\* the handler returned an error and the deliveries explored are used up
RedeliveryExhausted ==
    pc = "returned" /\ ret = "err" /\ deliveries = MaxDeliveries

\* C16: when every message of the batch names a valid image, then under
\* redelivery after each error and with storage failures that stop, the
\* worker's outputs for every message of the batch eventually exist (or the
\* handler is still failing when the deliveries explored are used up).
C16_Convergence ==
    (QueueWorker /\ \A idx \in 1..Len(records) :
                        RecordOf(idx).ok /\ RecordBytes(idx).intact = "ok")
        => <>(QueueWorker /\ (\/ \A idx \in 1..Len(records) : OutputsExist(idx)
                              \/ RedeliveryExhausted))


\* C15: with two overlapping invocations of the converter (of the resizer)
\* on the same message and an unchanged source object, a path that holds an
\* artifact keeps that content under every later write of either invocation:
\* whichever put comes last, the content is the one the first put wrote.
C15_LastWriteWins ==
    [][\A p \in DOMAIN blobs :
           /\ p \in DOMAIN blobs'
           /\ p \notin DOMAIN SourceObjects => blobs'[p] = blobs[p]]_vars

\* C15 witness: both invocations have uploaded to the same path and neither
\* has returned yet.
C15_Witness ==
    /\ parked # None
    /\ returns = <<>>
    /\ \E e1, e2 \in PutsDone : e1.d = 1 /\ e2.d = 2 /\ e1.at = e2.at


\* C18: one source upload triggers no further round: every UploadEvent on
\* the topic names a key outside converted/ and resized/, the folders the
\* workers write to.
C18_Quiescence ==
    \A k \in 1..Len(topic) :
        LET key == Unmarshal(topic[k].Message).Key
        IN \A folder \in {ConvertedFolder, ResizedFolder} :
               Len(key) >= Len(folder) => Take(key, Len(folder)) # folder

====
